---- MODULE Spec2Model ----
(***************************************************************************)
(* A model of week2/nhanes_confidence_intervals.ipynb: the code cells of   *)
(* the notebook, executed once each in notebook order by one kernel.       *)
(*                                                                         *)
(* Representation.                                                         *)
(*  - The kernel's global namespace is the function ns from variable names *)
(*    to values; a name is bound iff it is in DOMAIN ns.                   *)
(*  - A DataFrame is a bag (multiset) of rows, a row a record of its       *)
(*    columns.  No cell depends on the order of rows.                      *)
(*  - A float is the integer floor(x * Scale) (fixed point).  A product of *)
(*    two floats is kept at Scale^2 until the enclosing division or sqrt,  *)
(*    so that np.sqrt(a**2 + b**2) and np.sqrt(p*(1-p)/n) round once.      *)
(*  - A cell number is the 0-based index of the cell in the notebook; pc   *)
(*    is the number of the code cell that runs next.                       *)
(***************************************************************************)
EXTENDS Integers, Sequences, FiniteSets, Bags, TLC

VARIABLES csv,      \* the rows of nhanes_2015_2016.csv (the columns the notebook uses)
          ns,       \* the kernel's global namespace: name -> value
          pc,       \* the code cell that runs next
          it,       \* cell 50's loop iterators: [k |-> index into the sizes, i |-> range position]
          out,      \* Out[cell]: the value a cell displays as its last expression
          printed,  \* what print() has written: a sequence of <<cell, values>>
          plots,    \* what the plotting calls have drawn: <<cell, y-values>>, one per call
          ncalls    \* the number of calls of zconfint_mean made by cell 50

vars == <<csv, ns, pc, it, out, printed, plots, ncalls>>

---------------------------------------------------------------------------
(* Bounds of the model. *)

Scale == 1000        \* fixed-point unit: the float x is floor(x * Scale)
Reps == 2            \* stands for the 500 of range(500) in cell 50
SizeUnit == 2        \* stands for the 100 of the sizes 100, 200, 400, 800 in cell 50
MaxExtra == 2        \* respondents added to the base data set
MaxN == 20           \* the largest group of the standard error of one proportion

---------------------------------------------------------------------------
(* Floats. *)

NaN == -1000000000
NaNLabel == "NaN"

Max(a, b) == IF a >= b THEN a ELSE b
Min(a, b) == IF a <= b THEN a ELSE b
Abs(a) == IF a >= 0 THEN a ELSE -a

\* The float written m/den in the source (7.753 is Lit(7753, 1000)).
Lit(m, den) == (m * Scale) \div den

RECURSIVE SqrtSearch(_, _, _)
SqrtSearch(x, lo, hi) ==
    IF lo >= hi THEN lo
    ELSE LET mid == (lo + hi + 1) \div 2
         IN IF mid * mid <= x THEN SqrtSearch(x, mid, hi)
                              ELSE SqrtSearch(x, lo, mid - 1)

\* np.sqrt of a value held at Scale^2: the result is at Scale.
ISqrt(x) == IF x = NaN \/ x < 0 THEN NaN ELSE SqrtSearch(x, 0, Min(x, 46340))

\* r*r <= n * Scale^2, computed without leaving 32 bits.
SqLeq(r, n) ==
    LET a == r \div Scale
        b == r % Scale
        low == 2 * a * b * Scale + b * b
        q == a * a + low \div (Scale * Scale)
    IN q < n \/ (q = n /\ low % (Scale * Scale) = 0)

RECURSIVE SqrtNSearch(_, _, _)
SqrtNSearch(n, lo, hi) ==
    IF lo >= hi THEN lo
    ELSE LET mid == (lo + hi + 1) \div 2
         IN IF SqLeq(mid, n) THEN SqrtNSearch(n, mid, hi)
                             ELSE SqrtNSearch(n, lo, mid - 1)

\* np.sqrt of a count n (an integer): floor(sqrt(n) * Scale).
SqrtN(n) == IF n = NaN \/ n < 0 THEN NaN
            ELSE SqrtNSearch(n, 0, Scale * (SqrtSearch(n, 0, Min(n, 46340)) + 1))

\* a / b of two floats, or of a float and the float of a count.
FDiv(a, b) == IF a = NaN \/ b = NaN \/ b = 0 THEN NaN ELSE (a * Scale) \div b

FSub(a, b) == IF a = NaN \/ b = NaN THEN NaN ELSE a - b
FAdd(a, b) == IF a = NaN \/ b = NaN THEN NaN ELSE a + b

\* c * x for the literal multiplier c = num/den (1.96 is 196/100, 2 is 2/1).
FScale(num, den, x) == IF x = NaN THEN NaN ELSE (num * x) \div den

---------------------------------------------------------------------------
(* DataFrames as bags of rows. *)

RECURSIVE SumFn(_, _)
SumFn(f, S) == IF S = {} THEN 0
               ELSE LET x == CHOOSE y \in S : TRUE
                    IN f[x] + SumFn(f, S \ {x})

Rows(df) == DOMAIN df
Size(df) == SumFn(df, DOMAIN df)

\* f itself, as an explicit table (TLC then evaluates f once, not at every use).
Table(f) == f @@ << >>

\* The rows of df that are in S, with their multiplicities: df[mask].
Where(df, S) == Table([r \in S \cap DOMAIN df |-> df[r]])

\* df with every row r replaced by f[r].
MapRows(df, f) ==
    LET img == {f[r] : r \in DOMAIN df}
    IN Table([s \in img |-> SumFn(df, {r \in DOMAIN df : f[r] = s})])

\* df[name] = f(row): a column added or replaced.
WithColumn(r, name, v) == [c \in (DOMAIN r) \cup {name} |-> IF c = name THEN v ELSE r[c]]

\* df[cols]
Project(r, cols) == [c \in cols |-> r[c]]

\* The number of rows of df that are in S.
Count(df, S) == Size(Where(df, S))

\* A missing value of column c: NaN in a numeric column, NaNLabel in a column of labels.
LabelColumns == {"SMQ020x", "RIAGENDRx"}
IsNA(r, c) == IF c \in LabelColumns THEN r[c] = NaNLabel ELSE r[c] = NaN

\* A forgotten dropna(): no row is dropped.
dropna_none(df) == df

\* df.dropna(): the rows without a missing value in any column.
dropna(df) == Where(df, {r \in Rows(df) : \A c \in DOMAIN r : ~ IsNA(r, c)})

---------------------------------------------------------------------------
(* The data set.  Every data set of the model holds the base respondents   *)
(* and at most MaxExtra further ones.  The base fills every age band of    *)
(* both genders and holds 8 * SizeUnit women with a BMI, so that the       *)
(* largest subsample of cell 50 can be drawn, as in the NHANES file.       *)
(* BMXBMI is a float (25 * Scale is 25.0) or NaN; the other columns are    *)
(* the integer codes of the file.                                          *)

Row(s, g, a, b) == [SMQ020 |-> s, RIAGENDR |-> g, RIDAGEYR |-> a, BMXBMI |-> b]

BaseFemale ==
    { Row(1, 2, 25, 25 * Scale), Row(2, 2, 25, 25 * Scale),
      Row(1, 2, 35, 25 * Scale), Row(2, 2, 35, 25 * Scale),
      Row(2, 2, 45, 25 * Scale), Row(1, 2, 55, 25 * Scale),
      Row(2, 2, 65, 25 * Scale), Row(2, 2, 75, 25 * Scale) }

BaseMale ==
    { Row(1, 1, 18, 23 * Scale),
      Row(1, 1, 25, 24 * Scale), Row(2, 1, 25, 27 * Scale),
      Row(1, 1, 35, 24 * Scale), Row(2, 1, 35, 27 * Scale),
      Row(1, 1, 45, 26 * Scale), Row(2, 1, 45, 27 * Scale),
      Row(1, 1, 55, 24 * Scale), Row(1, 1, 55, 28 * Scale),
      Row(1, 1, 65, 24 * Scale), Row(2, 1, 65, 27 * Scale),
      Row(2, 1, 80, 22 * Scale), Row(2, 1, 80, 27 * Scale) }

Base == [r \in BaseFemale \cup BaseMale |-> IF r \in BaseFemale THEN SizeUnit ELSE 1]

ExtraRows ==
    { Row(7, 2, 35, 25 * Scale),      \* a woman who refused the smoking question
      Row(1, 2, 35, NaN),             \* a woman without a BMI
      Row(2, 1, 35, NaN),             \* a man without a BMI
      Row(9, 2, 18, NaN),             \* did not know; outside the age bands, no BMI
      Row(2, 2, 35, 28 * Scale),      \* a woman with a higher BMI than the others
      Row(1, 2, 65, 20 * Scale),      \* a woman with a lower BMI than the others
      Row(7, 1, 65, 30 * Scale) }     \* a man who refused the smoking question

\* At most one woman has a BMI other than 25, which keeps the number of distinct
\* subsamples of cell 50 small.
Datasets ==
    { Base (+) SetToBag(E) :
        E \in {X \in SUBSET ExtraRows :
                 /\ Cardinality(X) <= MaxExtra
                 /\ ~ {Row(2, 2, 35, 28 * Scale), Row(1, 2, 65, 20 * Scale)} \subseteq X} }

---------------------------------------------------------------------------
(* The namespace. *)

Bind(name, v, env) == (name :> v) @@ env
Bound(name) == name \in DOMAIN ns
Show(cell, v) == (cell :> v) @@ out

Init ==
    /\ csv \in Datasets
    /\ ns = << >>
    /\ pc = 1
    /\ it = [k |-> 0, i |-> 0]
    /\ out = << >>
    /\ printed = << >>
    /\ plots = << >>
    /\ ncalls = 0

---------------------------------------------------------------------------
(* pandas and statsmodels operations the cells use. *)

\* Series.replace({1: "Yes", 2: "No", 7: np.nan, 9: np.nan})
ReplaceSMQ020(v) == CASE v = 1 -> "Yes" [] v = 2 -> "No" [] v = 7 -> NaNLabel
                      [] v = 9 -> NaNLabel [] OTHER -> v

\* Series.replace({1: "Male", 2: "Female"})
ReplaceRIAGENDR(v) == CASE v = 1 -> "Male" [] v = 2 -> "Female" [] OTHER -> v

AgeBins == <<18, 30, 40, 50, 60, 70, 80>>
AgeGroups == 1 .. (Len(AgeBins) - 1)

\* pd.cut(age, AgeBins): the band b with AgeBins[b] < age <= AgeBins[b+1], else missing.
Cut(age) == IF \E b \in AgeGroups : AgeBins[b] < age /\ age <= AgeBins[b + 1]
            THEN CHOOSE b \in AgeGroups : AgeBins[b] < age /\ age <= AgeBins[b + 1]
            ELSE NaN

Genders == {"Female", "Male"}

\* np.mean(x == "Yes") over the rows of a group: missing answers compare unequal.
MeanIsYes(G) == IF Size(G) = 0 THEN NaN
                ELSE (Count(G, {r \in Rows(G) : r.SMQ020x = "Yes"}) * Scale) \div Size(G)

\* Series.count() in the place of np.size: the rows with an answer.
GroupSize_count(G) == IF Size(G) = 0 THEN NaN ELSE Count(G, {r \in Rows(G) : r.SMQ020x # NaNLabel})

\* np.size as a groupby aggregate: the number of rows of the group.
GroupSize(G) == IF Size(G) = 0 THEN NaN ELSE Size(G)

\* np.sqrt(p / n): the factor 1 - p left out.
PropSE_p(p, n) == IF p = NaN \/ n = NaN \/ n = 0 THEN NaN
                  ELSE ISqrt((p * Scale) \div n)

\* np.sqrt(p * (1 - p) / n)
PropSE(p, n) == IF p = NaN \/ n = NaN \/ n = 0 THEN NaN
                ELSE ISqrt((p * (Scale - p)) \div n)

\* The standard errors added, in the place of the root of the sum of their squares.
SqrtSumSq_plain(a, b) == IF a = NaN \/ b = NaN THEN NaN ELSE a + b

\* np.sqrt(a**2 + b**2)
SqrtSumSq(a, b) == IF a = NaN \/ b = NaN THEN NaN ELSE ISqrt(a * a + b * b)

\* scipy.stats.norm.ppf(0.975) * x, the multiplier 1.959964 rounded to 1.95996.
ZTimes(x) == IF x = NaN THEN NaN ELSE (195996 * x) \div 100000

\* sm.stats.proportion_confint(count, nobs): the normal-approximation interval.
proportion_confint(count, nobs) ==
    LET q == (count * Scale) \div nobs
        std == ISqrt((q * (Scale - q)) \div nobs)
    IN <<q - ZTimes(std), q + ZTimes(std)>>

---------------------------------------------------------------------------
(* The cells. *)

Cell1 ==
    /\ pc = 1
    /\ ns' = [m \in {"plt", "pd", "np", "sns", "sm"} |-> "module"] @@ ns
    /\ pc' = 3
    /\ UNCHANGED <<csv, it, out, printed, plots, ncalls>>

Cell3 ==
    /\ pc = 3
    /\ Bound("pd")
    /\ ns' = Bind("da", csv, ns)
    /\ pc' = 5
    /\ UNCHANGED <<csv, it, out, printed, plots, ncalls>>

Cell5 ==
    /\ pc = 5
    /\ Bound("da") /\ Bound("np")
    /\ LET da1 == MapRows(ns.da, [r \in Rows(ns.da) |-> WithColumn(r, "SMQ020x", ReplaceSMQ020(r.SMQ020))])
           da2 == MapRows(da1, [r \in Rows(da1) |-> WithColumn(r, "RIAGENDRx", ReplaceRIAGENDR(r.RIAGENDR))])
       IN ns' = Bind("da", da2, ns)
    /\ pc' = 7
    /\ UNCHANGED <<csv, it, out, printed, plots, ncalls>>

\* pd.crosstab(a, b): the count of every pair of values present.
crosstab(df, a, b) ==
    [u \in {r[a] : r \in Rows(df)} |->
        [v \in {r[b] : r \in Rows(df)} |-> Count(df, {r \in Rows(df) : r[a] = u /\ r[b] = v})]]

Cell7 ==
    /\ pc = 7
    /\ Bound("da") /\ Bound("pd")
    /\ \E dx \in {dropna(MapRows(ns.da, [r \in Rows(ns.da) |-> Project(r, {"SMQ020x", "RIAGENDRx"})]))} :
          /\ ns' = Bind("dx", dx, ns)
          /\ out' = Show(7, crosstab(dx, "SMQ020x", "RIAGENDRx"))
    /\ pc' = 9
    /\ UNCHANGED <<csv, it, printed, plots, ncalls>>

Cell9 ==
    /\ pc = 9
    /\ Bound("dx") /\ Bound("np")
    /\ LET keys == {r.RIAGENDRx : r \in Rows(ns.dx)}
           grp(g) == Where(ns.dx, {r \in Rows(ns.dx) : r.RIAGENDRx = g})
           dz == [Proportion |-> [g \in keys |-> MeanIsYes(grp(g))],
                  Total_n |-> [g \in keys |-> GroupSize(grp(g))]]
       IN /\ ns' = Bind("dz", dz, ns)
          /\ out' = Show(9, dz)
    /\ pc' = 11
    /\ UNCHANGED <<csv, it, printed, plots, ncalls>>

Cell11 ==
    /\ pc = 11
    /\ Bound("dz") /\ Bound("np")
    /\ Genders \subseteq DOMAIN ns.dz.Proportion
    /\ LET pf == ns.dz.Proportion.Female
           nf == ns.dz.Total_n.Female
           se_female == PropSE(pf, nf)
           pm == ns.dz.Proportion.Male
           nm == ns.dz.Total_n.Male
           se_male == PropSE(pm, nm)
       IN /\ ns' = Bind("se_male", se_male, Bind("n", nm, Bind("p", pm,
                       Bind("se_female", se_female, ns))))
          /\ printed' = printed \o << <<11, <<se_female>> >>, <<11, <<se_male>> >> >>
    /\ pc' = 13
    /\ UNCHANGED <<csv, it, out, plots, ncalls>>

\* The multiplier 2 in every cell, whatever the cell writes.
Interval_two(e, num, den, se) == <<FSub(e, FScale(2, 1, se)), FAdd(e, FScale(2, 1, se))>>

\* lcb = e - c * se;  ucb = e + c * se, for the literal c = num/den
Interval(e, num, den, se) == <<FSub(e, FScale(num, den, se)), FAdd(e, FScale(num, den, se))>>

Cell13 ==
    /\ pc = 13
    /\ Bound("dz") /\ Bound("np")
    /\ "Female" \in DOMAIN ns.dz.Proportion
    /\ LET p == ns.dz.Proportion.Female
           n == ns.dz.Total_n.Female
           ci == Interval(p, 196, 100, PropSE(p, n))
       IN /\ ns' = Bind("ucb", ci[2], Bind("lcb", ci[1], Bind("n", n, Bind("p", p, ns))))
          /\ printed' = Append(printed, <<13, ci>>)
    /\ pc' = 15
    /\ UNCHANGED <<csv, it, out, plots, ncalls>>

Cell15 ==
    /\ pc = 15
    /\ Bound("dz") /\ Bound("np")
    /\ "Male" \in DOMAIN ns.dz.Proportion
    /\ LET p == ns.dz.Proportion.Male
           n == ns.dz.Total_n.Male
           ci == Interval(p, 196, 100, PropSE(p, n))
       IN /\ ns' = Bind("ucb", ci[2], Bind("lcb", ci[1], Bind("n", n, Bind("p", p, ns))))
          /\ printed' = Append(printed, <<15, ci>>)
    /\ pc' = 18
    /\ UNCHANGED <<csv, it, out, plots, ncalls>>

Cell18 ==
    /\ pc = 18
    /\ Bound("sm")
    /\ out' = Show(18, proportion_confint(906, 906 + 2066))
    /\ pc' = 19
    /\ UNCHANGED <<csv, ns, it, printed, plots, ncalls>>

Cell19 ==
    /\ pc = 19
    /\ Bound("sm")
    /\ out' = Show(19, proportion_confint(1413, 1413 + 1340))
    /\ pc' = 22
    /\ UNCHANGED <<csv, ns, it, printed, plots, ncalls>>

\* Cell 22 without its assignment: the value is displayed, se_diff is not bound.
Cell22_shown ==
    /\ pc = 22
    /\ Bound("np") /\ Bound("se_female") /\ Bound("se_male")
    /\ out' = Show(22, SqrtSumSq(ns.se_female, ns.se_male))
    /\ pc' = 24
    /\ UNCHANGED <<csv, ns, it, printed, plots, ncalls>>

Cell22 ==
    /\ pc = 22
    /\ Bound("np") /\ Bound("se_female") /\ Bound("se_male")
    /\ LET se_diff == SqrtSumSq(ns.se_female, ns.se_male)
       IN /\ ns' = Bind("se_diff", se_diff, ns)
          /\ out' = Show(22, se_diff)
    /\ pc' = 24
    /\ UNCHANGED <<csv, it, printed, plots, ncalls>>

Cell24 ==
    /\ pc = 24
    /\ Bound("dz") /\ Bound("se_diff")
    /\ Genders \subseteq DOMAIN ns.dz.Proportion
    /\ LET d == FSub(ns.dz.Proportion.Female, ns.dz.Proportion.Male)
           ci == Interval(d, 2, 1, ns.se_diff)
       IN /\ ns' = Bind("ucb", ci[2], Bind("lcb", ci[1], Bind("d", d, ns)))
          /\ printed' = Append(printed, <<24, ci>>)
    /\ pc' = 27
    /\ UNCHANGED <<csv, it, out, plots, ncalls>>

---------------------------------------------------------------------------
(* Series of numbers (bags of values) and their statistics. *)

\* The non-missing values of column col of df, with their multiplicities.
Values(df, col) ==
    LET kept == Where(df, {r \in Rows(df) : r[col] # NaN})
    IN MapRows(kept, [r \in Rows(kept) |-> r[col]])

SumOf(X) == SumFn([v \in DOMAIN X |-> v * X[v]], DOMAIN X)

\* Series.mean(): missing values are skipped.
Mean(X) == IF Size(X) = 0 THEN NaN ELSE SumOf(X) \div Size(X)

\* The sum of the squared deviations from the mean, at Scale^2.
SumSqDev(X) ==
    LET m == Mean(X)
    IN SumFn([v \in DOMAIN X |-> (v - m) * (v - m) * X[v]], DOMAIN X)

\* Series.std(ddof): sqrt(sum of squared deviations / (count - ddof)).
Std(X, ddof) == IF Size(X) <= ddof THEN NaN
                ELSE ISqrt(SumSqDev(X) \div (Size(X) - ddof))

\* np.mean, np.std as groupby aggregates of BMXBMI (pandas: skipna, ddof = 1).
GroupMean(G) == Mean(Values(G, "BMXBMI"))
GroupStd(G) == Std(Values(G, "BMXBMI"), 1)

\* std / np.sqrt(size)
SEM(std, size) == FDiv(std, SqrtN(size))

\* std(ddof = 0) / sqrt(nobs) in the place of std_mean.
zconfint_mean_nobs(X) ==
    LET std_mean == FDiv(Std(X, 0), SqrtN(Size(X)))
    IN <<FSub(Mean(X), ZTimes(std_mean)), FAdd(Mean(X), ZTimes(std_mean))>>

\* sm.stats.DescrStatsW(X).zconfint_mean(): mean -+ z * std_mean, where
\* std_mean = std(ddof = 0) / sqrt(nobs - 1).
zconfint_mean(X) ==
    LET std_mean == FDiv(Std(X, 0), SqrtN(Size(X) - 1))
    IN <<FSub(Mean(X), ZTimes(std_mean)), FAdd(Mean(X), ZTimes(std_mean))>>

\* np.arange(n)
arange(n) == [j \in 1 .. n |-> j - 1]

\* da["agegrp"] = pd.cut(da.RIDAGEYR, [18, 30, 40, 50, 60, 70, 80])
WithAgegrp(da) == MapRows(da, [r \in Rows(da) |-> WithColumn(r, "agegrp", Cut(r.RIDAGEYR))])

\* The rows of one age band and gender: a group of groupby(["agegrp", "RIAGENDRx"]).
AgeGenderGroup(da, b, g) == Where(da, {r \in Rows(da) : r.agegrp = b /\ r.RIAGENDRx = g})

\* The rows of one gender: a group of groupby("RIAGENDRx").
GenderGroup(da, g) == Where(da, {r \in Rows(da) : r.RIAGENDRx = g})

\* Cell 27 for one age band b: the proportions pr, the sizes dn, the standard
\* errors se of both genders, the standard error se_diff of the difference pq.
SmokingBand(da, b) ==
    LET F == AgeGenderGroup(da, b, "Female")
        M == AgeGenderGroup(da, b, "Male")
        prF == MeanIsYes(F)
        prM == MeanIsYes(M)
        dnF == GroupSize(F)
        dnM == GroupSize(M)
        seF == PropSE(prF, dnF)
        seM == PropSE(prM, dnM)
    IN [pr |-> [Female |-> prF, Male |-> prM],
        dn |-> [Female |-> dnF, Male |-> dnM],
        se |-> [Female |-> seF, Male |-> seM],
        se_diff |-> SqrtSumSq(seF, seM),
        pq |-> FSub(prF, prM)]

Cell27 ==
    /\ pc = 27
    /\ Bound("da") /\ Bound("pd") /\ Bound("np") /\ Bound("sns")
    /\ \E da \in {WithAgegrp(ns.da)} :
       \E band \in {Table([b \in AgeGroups |-> SmokingBand(da, b)])} :
       LET pr == [g \in Genders |-> [b \in AgeGroups |-> band[b].pr[g]]]
           dn == [g \in Genders |-> [b \in AgeGroups |-> band[b].dn[g]]]
           se == [g \in Genders |-> [b \in AgeGroups |-> band[b].se[g]]]
           se_diff == [b \in AgeGroups |-> band[b].se_diff]
           pq == [b \in AgeGroups |-> band[b].pq]
           ci == [b \in AgeGroups |-> Interval(band[b].pq, 2, 1, band[b].se_diff)]
       IN /\ ns' = Bind("pp", "axes", Bind("x", arange(Cardinality(AgeGroups)), Bind("pq", pq,
                   Bind("se_diff", se_diff, Bind("se", se, Bind("dn", dn,
                   Bind("pr", pr, Bind("da", da, ns))))))))
          /\ plots' = plots \o << <<27, pq>>,
                                  <<27, [b \in AgeGroups |-> ci[b][1]]>>,
                                  <<27, [b \in AgeGroups |-> ci[b][2]]>> >>
    /\ out' = Show(27, "Text(0, 0.5, 'Female - male smoking proportion')")
    /\ pc' = 30
    /\ UNCHANGED <<csv, it, printed, ncalls>>

Cell30 ==
    /\ pc = 30
    /\ Bound("da") /\ Bound("np")
    /\ LET keys == {r.RIAGENDRx : r \in Rows(ns.da)}
       IN out' = Show(30, [BMXBMI |-> [g \in keys |-> GroupMean(GenderGroup(ns.da, g))]])
    /\ pc' = 32
    /\ UNCHANGED <<csv, ns, it, printed, plots, ncalls>>

Cell32 ==
    /\ pc = 32
    /\ Bound("da") /\ Bound("np")
    /\ LET keys == {r.RIAGENDRx : r \in Rows(ns.da)}
       IN out' = Show(32, [mean |-> [g \in keys |-> GroupMean(GenderGroup(ns.da, g))],
                           std |-> [g \in keys |-> GroupStd(GenderGroup(ns.da, g))],
                           size |-> [g \in keys |-> GroupSize(GenderGroup(ns.da, g))]])
    /\ pc' = 34
    /\ UNCHANGED <<csv, ns, it, printed, plots, ncalls>>

Cell34 ==
    /\ pc = 34
    /\ Bound("np")
    /\ LET sem_female == SEM(Lit(7753, 1000), 2976)
           sem_male == SEM(Lit(6253, 1000), 2759)
       IN /\ ns' = Bind("sem_male", sem_male, Bind("sem_female", sem_female, ns))
          /\ printed' = Append(printed, <<34, <<sem_female, sem_male>> >>)
    /\ pc' = 37
    /\ UNCHANGED <<csv, it, out, plots, ncalls>>

Cell37 ==
    /\ pc = 37
    /\ Bound("np")
    /\ LET half == FDiv(FScale(196, 100, Lit(7753, 1000)), SqrtN(2976))
           lcb_female == FSub(Lit(2994, 100), half)
           ucb_female == FAdd(Lit(2994, 100), half)
       IN /\ ns' = Bind("ucb_female", ucb_female, Bind("lcb_female", lcb_female, ns))
          /\ printed' = Append(printed, <<37, <<lcb_female, ucb_female>> >>)
    /\ pc' = 39
    /\ UNCHANGED <<csv, it, out, plots, ncalls>>

Cell39 ==
    /\ pc = 39
    /\ Bound("da") /\ Bound("sm")
    /\ LET female_bmi == Values(GenderGroup(ns.da, "Female"), "BMXBMI")
       IN /\ ns' = Bind("female_bmi", female_bmi, ns)
          /\ out' = Show(39, zconfint_mean(female_bmi))
    /\ pc' = 41
    /\ UNCHANGED <<csv, it, printed, plots, ncalls>>

Cell41 ==
    /\ pc = 41
    /\ Bound("np") /\ Bound("sem_female") /\ Bound("sem_male")
    /\ LET sem_diff == SqrtSumSq(ns.sem_female, ns.sem_male)
       IN /\ ns' = Bind("sem_diff", sem_diff, ns)
          /\ out' = Show(41, sem_diff)
    /\ pc' = 43
    /\ UNCHANGED <<csv, it, printed, plots, ncalls>>

Cell43 ==
    /\ pc = 43
    /\ Bound("sem_diff")
    /\ LET bmi_diff == FSub(Lit(2994, 100), Lit(2878, 100))
           ci == Interval(bmi_diff, 2, 1, ns.sem_diff)
       IN /\ ns' = Bind("ucb", ci[2], Bind("lcb", ci[1], Bind("bmi_diff", bmi_diff, ns)))
          /\ out' = Show(43, ci)
    /\ pc' = 46
    /\ UNCHANGED <<csv, it, printed, plots, ncalls>>

\* Cell 46 for one age band b: mean, std, size and sem of both genders, the
\* difference of the means, its standard error and its interval.
BMIBand(da, b) ==
    LET F == AgeGenderGroup(da, b, "Female")
        M == AgeGenderGroup(da, b, "Male")
        stdF == GroupStd(F)
        stdM == GroupStd(M)
        sizeF == GroupSize(F)
        sizeM == GroupSize(M)
        semF == SEM(stdF, sizeF)
        semM == SEM(stdM, sizeM)
        mean_diff == FSub(GroupMean(F), GroupMean(M))
        sem_diff == SqrtSumSq(semF, semM)
        ci == Interval(mean_diff, 196, 100, sem_diff)
    IN [mean |-> [Female |-> GroupMean(F), Male |-> GroupMean(M)],
        std |-> [Female |-> stdF, Male |-> stdM],
        size |-> [Female |-> sizeF, Male |-> sizeM],
        sem |-> [Female |-> semF, Male |-> semM],
        mean_diff |-> mean_diff, sem_diff |-> sem_diff,
        lcb_diff |-> ci[1], ucb_diff |-> ci[2]]

\* pr is held by column: pr.mean.Female[b] is pr["BMXBMI", "mean", "Female"] in band b,
\* pr.lcb_diff[b] is pr["BMXBMI", "lcb_diff", ""] in band b.
Cell46 ==
    /\ pc = 46
    /\ Bound("da") /\ Bound("pd") /\ Bound("np") /\ Bound("sns")
    /\ \E da \in {WithAgegrp(ns.da)} :
       \E band \in {Table([b \in AgeGroups |-> BMIBand(da, b)])} :
       LET pr == [mean |-> [g \in Genders |-> [b \in AgeGroups |-> band[b].mean[g]]],
                  std |-> [g \in Genders |-> [b \in AgeGroups |-> band[b].std[g]]],
                  size |-> [g \in Genders |-> [b \in AgeGroups |-> band[b].size[g]]],
                  sem |-> [g \in Genders |-> [b \in AgeGroups |-> band[b].sem[g]]],
                  mean_diff |-> [b \in AgeGroups |-> band[b].mean_diff],
                  sem_diff |-> [b \in AgeGroups |-> band[b].sem_diff],
                  lcb_diff |-> [b \in AgeGroups |-> band[b].lcb_diff],
                  ucb_diff |-> [b \in AgeGroups |-> band[b].ucb_diff]]
       IN /\ ns' = Bind("pp", "axes", Bind("x", arange(Cardinality(AgeGroups)),
                   Bind("pr", pr, Bind("da", da, ns))))
          /\ plots' = plots \o << <<46, pr.mean_diff>>, <<46, pr.lcb_diff>>, <<46, pr.ucb_diff>> >>
    /\ out' = Show(46, "Text(0, 0.5, 'Female - male BMI difference')")
    /\ pc' = 48
    /\ UNCHANGED <<csv, it, printed, ncalls>>

Cell48 ==
    /\ pc = 48
    /\ Bound("pr")
    /\ printed' = Append(printed, <<48, ns.pr>>)
    /\ pc' = 50
    /\ UNCHANGED <<csv, ns, it, out, plots, ncalls>>

---------------------------------------------------------------------------
(* The subsampling simulation. *)

\* for n in 100, 200, 400, 800: the sizes are SizeUnit times 1, 2, 4, 8.
Sizes == <<SizeUnit, 2 * SizeUnit, 4 * SizeUnit, 8 * SizeUnit>>

\* dx.sample(n): n rows drawn without replacement; every sub-bag of n rows can come out.
\* (No sub-bag exists when n exceeds the number of rows: pandas then raises ValueError.)
Samples(dx, n) == {B \in SubBag(dx) : Size(B) = n}

\* The mean of a list of floats.
MeanSeq(s) == SumFn(s, DOMAIN s) \div Len(s)

\* np.mean(b) of a list of booleans: the fraction of True.
FracTrue(b) == (Cardinality({j \in DOMAIN b : b[j]}) * Scale) \div Len(b)

\* cis[:, 1].mean() - cis[:, 0].mean()
MeanWidth(cis) == MeanSeq([j \in DOMAIN cis |-> cis[j][2]]) - MeanSeq([j \in DOMAIN cis |-> cis[j][1]])

\* Cell 50 up to the first pass of the outer loop's body: dx, all_cis = [], n, cis = [].
Cell50_Begin ==
    /\ pc = 50 /\ it.k = 0
    /\ Bound("da") /\ Bound("sm") /\ Bound("np")
    /\ \E women \in {GenderGroup(ns.da, "Female")} :
       \E dx \in {dropna(MapRows(women, [r \in Rows(women) |-> Project(r, {"RIAGENDRx", "BMXBMI"})]))} :
          ns' = Bind("cis", << >>, Bind("n", Sizes[1], Bind("all_cis", << >>, Bind("dx", dx, ns))))
    /\ it' = [k |-> 1, i |-> 0]
    /\ UNCHANGED <<csv, pc, out, printed, plots, ncalls>>

\* range(501) in the place of range(500): one pass too many.
Cell50_Sample_more ==
    /\ pc = 50 /\ it.k \in DOMAIN Sizes /\ it.i <= Reps
    /\ \E dz \in Samples(ns.dx, ns.n) :
       \E ci \in {zconfint_mean(Values(dz, "BMXBMI"))} :
          ns' = Bind("cis", Append(ns.cis, ci), Bind("ci", ci, Bind("dz", dz, Bind("i", it.i, ns))))
    /\ it' = [it EXCEPT !.i = it.i + 1]
    /\ ncalls' = ncalls + 1
    /\ UNCHANGED <<csv, pc, out, printed, plots>>

\* One pass of the inner loop: dz = dx.sample(n), ci = zconfint_mean, cis.append(ci).
Cell50_Sample ==
    /\ pc = 50 /\ it.k \in DOMAIN Sizes /\ it.i < Reps
    /\ \E dz \in Samples(ns.dx, ns.n) :
       \E ci \in {zconfint_mean(Values(dz, "BMXBMI"))} :
          ns' = Bind("cis", Append(ns.cis, ci), Bind("ci", ci, Bind("dz", dz, Bind("i", it.i, ns))))
    /\ it' = [it EXCEPT !.i = it.i + 1]
    /\ ncalls' = ncalls + 1
    /\ UNCHANGED <<csv, pc, out, printed, plots>>

\* The end of a pass of the outer loop: mean_width, print, all_cis.append(cis); then
\* the next size with cis = [], or the end of the cell.
Cell50_EndSize ==
    /\ pc = 50 /\ it.k \in DOMAIN Sizes /\ it.i = Reps
    /\ LET mean_width == MeanWidth(ns.cis)
           env == Bind("all_cis", Append(ns.all_cis, ns.cis), Bind("mean_width", mean_width, ns))
       IN /\ printed' = Append(printed, <<50, <<ns.n, mean_width>> >>)
          /\ IF it.k < Len(Sizes)
             THEN /\ ns' = Bind("cis", << >>, Bind("n", Sizes[it.k + 1], env))
                  /\ it' = [k |-> it.k + 1, i |-> 0]
                  /\ pc' = pc
             ELSE /\ ns' = env
                  /\ it' = it
                  /\ pc' = 52
    /\ UNCHANGED <<csv, out, plots, ncalls>>

\* ci = all_cis[-1] in the place of all_cis[0]: the intervals of the last size.
Cell52_last ==
    /\ pc = 52
    /\ Bound("all_cis") /\ Bound("dx") /\ Bound("plt")
    /\ Len(ns.all_cis) >= 1
    /\ LET ci == ns.all_cis[Len(ns.all_cis)]
           mn == Mean(Values(ns.dx, "BMXBMI"))
       IN /\ ns' = Bind("mn", mn, Bind("x", ci[Len(ci)], Bind("j", Len(ci) - 1, Bind("ci", ci, ns))))
          /\ plots' = plots \o [j \in DOMAIN ci |-> <<52, ci[j]>>] \o << <<52, <<mn, mn>> >> >>
    /\ out' = Show(52, "[Line2D]")
    /\ pc' = 54
    /\ UNCHANGED <<csv, it, printed, ncalls>>

Cell52 ==
    /\ pc = 52
    /\ Bound("all_cis") /\ Bound("dx") /\ Bound("plt")
    /\ Len(ns.all_cis) >= 1
    /\ LET ci == ns.all_cis[1]
           mn == Mean(Values(ns.dx, "BMXBMI"))
       IN /\ ns' = Bind("mn", mn, Bind("x", ci[Len(ci)], Bind("j", Len(ci) - 1, Bind("ci", ci, ns))))
          /\ plots' = plots \o [j \in DOMAIN ci |-> <<52, ci[j]>>] \o << <<52, <<mn, mn>> >> >>
    /\ out' = Show(52, "[Line2D]")
    /\ pc' = 54
    /\ UNCHANGED <<csv, it, printed, ncalls>>

\* ci[:, 0] < mn in the place of ci[:, 0] > mn in the second line.
Cell54_below ==
    /\ pc = 54
    /\ Bound("ci") /\ Bound("mn") /\ Bound("np")
    /\ printed' = printed \o << <<54, <<FracTrue([j \in DOMAIN ns.ci |-> ns.ci[j][2] < ns.mn])>> >>,
                                <<54, <<FracTrue([j \in DOMAIN ns.ci |-> ns.ci[j][1] < ns.mn])>> >> >>
    /\ pc' = 55
    /\ UNCHANGED <<csv, ns, it, out, plots, ncalls>>

Cell54 ==
    /\ pc = 54
    /\ Bound("ci") /\ Bound("mn") /\ Bound("np")
    /\ printed' = printed \o << <<54, <<FracTrue([j \in DOMAIN ns.ci |-> ns.ci[j][2] < ns.mn])>> >>,
                                <<54, <<FracTrue([j \in DOMAIN ns.ci |-> ns.ci[j][1] > ns.mn])>> >> >>
    /\ pc' = 55
    /\ UNCHANGED <<csv, ns, it, out, plots, ncalls>>

\* Every code cell has run.
Done == pc = 55

Next ==
    \/ Cell1 \/ Cell3 \/ Cell5 \/ Cell7 \/ Cell9 \/ Cell11 \/ Cell13 \/ Cell15
    \/ Cell18 \/ Cell19 \/ Cell22 \/ Cell24 \/ Cell27 \/ Cell30 \/ Cell32 \/ Cell34
    \/ Cell37 \/ Cell39 \/ Cell41 \/ Cell43 \/ Cell46 \/ Cell48
    \/ Cell50_Begin \/ Cell50_Sample \/ Cell50_EndSize \/ Cell52 \/ Cell54

Spec == Init /\ [][Next]_vars

---------------------------------------------------------------------------
(* The respondents of the file, counted apart from the cells. *)

GenderCode(g) == IF g = "Female" THEN 2 ELSE 1

\* The respondents of gender g, and those of them in age band b.
InGender(r, g) == r.RIAGENDR = GenderCode(g)
InBand(r, g, b) == InGender(r, g) /\ AgeBins[b] < r.RIDAGEYR /\ r.RIDAGEYR <= AgeBins[b + 1]

\* se is the square root of p(1 - p)/n, rounded down.
IsPropSE(se, p, n) ==
    LET v == (p * (Scale - p)) \div n
    IN se >= 0 /\ se * se <= v /\ v < (se + 1) * (se + 1)

\* The limits e -+ (num/den) se.
Around(e, num, den, se) == <<e - (num * se) \div den, e + (num * se) \div den>>

\* Two intervals whose limits differ by at most tol.
Close(a, b, tol) == Abs(a[1] - b[1]) <= tol /\ Abs(a[2] - b[2]) <= tol

\* The confidence intervals the notebook has computed by hand so far, each about
\* its estimate with its standard error: num/den is the multiplier of the two
\* proportions, the female mean BMI and the BMI differences by age band, num2/den2
\* that of the difference of the proportions, the smoking differences by age band
\* and the overall BMI difference.
ManualIntervals(num, den, num2, den2) ==
    /\ pc = 15 =>
         <<ns.lcb, ns.ucb>> = Around(ns.dz.Proportion.Female, num, den, ns.se_female)
    /\ pc = 18 =>
         <<ns.lcb, ns.ucb>> = Around(ns.dz.Proportion.Male, num, den, ns.se_male)
    /\ pc = 27 =>
         <<ns.lcb, ns.ucb>> = Around(ns.d, num2, den2, out[22])
    /\ pc = 30 =>
         \A b \in AgeGroups :
            ns.se_diff[b] # NaN =>
               <<plots[2][2][b], plots[3][2][b]>> = Around(ns.pq[b], num2, den2, ns.se_diff[b])
    /\ pc = 39 =>
         Close(<<ns.lcb_female, ns.ucb_female>>,
               Around(Lit(2994, 100), num, den, ns.sem_female), 2)
    /\ pc = 46 =>
         <<ns.lcb, ns.ucb>> = Around(ns.bmi_diff, num2, den2, ns.sem_diff)
    /\ pc = 48 =>
         \A b \in AgeGroups :
            ns.pr.sem_diff[b] # NaN =>
               <<ns.pr.lcb_diff[b], ns.pr.ucb_diff[b]>> =
                  Around(ns.pr.mean_diff[b], num, den, ns.pr.sem_diff[b])

\* C1 as stated: every interval computed by hand is estimate -+ 1.96 SE, the
\* same multiplier in every cell.
C1_SameMultiplier == ManualIntervals(196, 100, 196, 100)

\* C1, amended: every interval computed by hand is estimate -+ c SE, with c = 1.96
\* for the two proportions, the female mean BMI and the BMI differences by age
\* band, and c = 2 for the difference of the proportions, the smoking differences
\* by age band and the overall BMI difference.
C1_Multipliers == ManualIntervals(196, 100, 2, 1)

\* The last interval by hand is computed, and the intervals are not degenerate.
C1_Witness ==
    /\ pc = 48
    /\ ns.lcb < ns.bmi_diff /\ out[22] > 0
    /\ \E b \in AgeGroups : ns.pr.sem_diff[b] # NaN /\ ns.pr.lcb_diff[b] < ns.pr.ucb_diff[b]
    /\ \E b \in AgeGroups : ns.se_diff[b] # NaN /\ plots[2][2][b] < plots[3][2][b]

\* C2 as stated: the respondents who answered neither "Yes" nor "No" count in no
\* proportion and no size of the smoking analyses, overall and by age band.
C2_MissingOmitted ==
    /\ pc = 11 =>
         \A g \in Genders :
            LET ans == Count(csv, {r \in Rows(csv) : InGender(r, g) /\ r.SMQ020 \in {1, 2}})
                yes == Count(csv, {r \in Rows(csv) : InGender(r, g) /\ r.SMQ020 = 1})
            IN /\ ns.dz.Total_n[g] = ans
               /\ ns.dz.Proportion[g] = (yes * Scale) \div ans
    /\ pc = 30 =>
         \A g \in Genders, b \in AgeGroups :
            LET ans == Count(csv, {r \in Rows(csv) : InBand(r, g, b) /\ r.SMQ020 \in {1, 2}})
                yes == Count(csv, {r \in Rows(csv) : InBand(r, g, b) /\ r.SMQ020 = 1})
            IN ans > 0 =>
                  /\ ns.dn[g][b] = ans
                  /\ ns.pr[g][b] = (yes * Scale) \div ans

\* C3: each standard error of a proportion is sqrt(p(1 - p)/n), where p is the
\* number of "Yes" among n observations divided by that same n: the two genders
\* of cell 11, and each gender and age band of cell 27.
C3_PropSE ==
    /\ pc = 13 =>
         /\ IsPropSE(ns.se_female, out[9].Proportion.Female, out[9].Total_n.Female)
         /\ IsPropSE(ns.se_male, out[9].Proportion.Male, out[9].Total_n.Male)
         /\ \A g \in Genders :
               out[9].Proportion[g] =
                  (Count(csv, {r \in Rows(csv) : InGender(r, g) /\ r.SMQ020 = 1}) * Scale)
                     \div out[9].Total_n[g]
    /\ pc = 30 =>
         \A g \in Genders, b \in AgeGroups :
            ns.dn[g][b] # NaN =>
               /\ IsPropSE(ns.se[g][b], ns.pr[g][b], ns.dn[g][b])
               /\ ns.pr[g][b] =
                     (Count(csv, {r \in Rows(csv) : InBand(r, g, b) /\ r.SMQ020 = 1}) * Scale)
                        \div ns.dn[g][b]

\* Cell 27 has run on a file where a respondent of some age band gave no answer,
\* and the standard error of that band is positive.
C3_Witness ==
    /\ pc = 30
    /\ \E g \in Genders, b \in AgeGroups :
          /\ ns.se[g][b] > 0
          /\ Count(csv, {r \in Rows(csv) : InBand(r, g, b) /\ ~ r.SMQ020 \in {1, 2}}) > 0

\* C4 as stated: the sample size of each standard error of a mean BMI counts the
\* respondents with a BMI only: the sizes of cell 32, and the sizes under the
\* standard errors of each gender and age band of cell 46.
C4_SizeNonMissing ==
    /\ pc = 34 =>
         \A g \in Genders :
            out[32].size[g] = Count(csv, {r \in Rows(csv) : InGender(r, g) /\ r.BMXBMI # NaN})
    /\ pc = 48 =>
         \A g \in Genders, b \in AgeGroups :
            ns.pr.std[g][b] # NaN =>
               ns.pr.sem[g][b] =
                  FDiv(ns.pr.std[g][b],
                       SqrtN(Count(csv, {r \in Rows(csv) : InBand(r, g, b) /\ r.BMXBMI # NaN})))

\* d is the square root of a^2 + b^2 rounded down: at least the larger of a and
\* b, more than it once the smaller one shows at this precision, at most a + b.
IsRootSumSq(d, a, b) ==
    /\ d * d <= a * a + b * b /\ a * a + b * b < (d + 1) * (d + 1)
    /\ d >= Max(a, b)
    /\ d <= a + b
    /\ (a > 0 /\ b > 0) => (d + 1) * (d + 1) > Max(a, b) * Max(a, b) + 1
    /\ Min(a, b) * Min(a, b) >= 2 * Max(a, b) + 1 => d > Max(a, b)

\* C5: the standard error of a difference is the root of the sum of the squares
\* of the two standard errors, in all four places (cells 22, 27, 41, 46): never
\* below the larger of the two, above it when both are positive, never above
\* their sum.
C5_RootSumSq ==
    /\ 22 \in DOMAIN out => IsRootSumSq(out[22], ns.se_female, ns.se_male)
    /\ pc >= 30 =>
         \A b \in AgeGroups :
            ns.se_diff[b] # NaN =>
               IsRootSumSq(ns.se_diff[b], ns.se.Female[b], ns.se.Male[b])
    /\ 41 \in DOMAIN out => IsRootSumSq(out[41], ns.sem_female, ns.sem_male)
    /\ pc >= 48 =>
         \A b \in AgeGroups :
            ns.pr.sem_diff[b] # NaN =>
               IsRootSumSq(ns.pr.sem_diff[b], ns.pr.sem.Female[b], ns.pr.sem.Male[b])

\* All four standard errors of a difference are computed, each of the four
\* kinds from two positive standard errors and above both.
C5_Witness ==
    /\ pc = 48
    /\ ns.se_female > 0 /\ ns.se_male > 0 /\ out[22] > Max(ns.se_female, ns.se_male)
    /\ out[41] > Max(ns.sem_female, ns.sem_male)
    /\ \E b \in AgeGroups :
          /\ ns.se.Female[b] > 0 /\ ns.se.Male[b] > 0
          /\ ns.se_diff[b] > Max(ns.se.Female[b], ns.se.Male[b])
    /\ \E b \in AgeGroups :
          /\ ns.pr.sem_diff[b] # NaN
          /\ ns.pr.sem.Female[b] > 0 /\ ns.pr.sem.Male[b] > 0
          /\ ns.pr.sem_diff[b] > Max(ns.pr.sem.Female[b], ns.pr.sem.Male[b])

\* C6: in the table of cell 9, Total_n of a gender is its "Yes" count plus its
\* "No" count in the table of cell 7 and Proportion times Total_n is its "Yes"
\* count; the intervals computed by hand from the table (cells 13, 15) are those
\* the library computes from these counts, up to the rounding of the multiplier.
C6_Counts ==
    /\ pc >= 11 =>
         \A g \in Genders :
            /\ out[9].Total_n[g] = out[7].Yes[g] + out[7].No[g]
            /\ out[9].Proportion[g] = (out[7].Yes[g] * Scale) \div out[9].Total_n[g]
    /\ pc = 15 =>
         Close(<<ns.lcb, ns.ucb>>,
               proportion_confint(out[7].Yes.Female, out[7].Yes.Female + out[7].No.Female), 1)
    /\ pc = 18 =>
         Close(<<ns.lcb, ns.ucb>>,
               proportion_confint(out[7].Yes.Male, out[7].Yes.Male + out[7].No.Male), 1)

\* The interval of the men is computed, on a file where a respondent gave no answer.
C6_Witness ==
    /\ pc = 18
    /\ ns.lcb < ns.ucb
    /\ out[7].Yes.Male > 0 /\ out[7].No.Male > 0
    /\ Count(csv, {r \in Rows(csv) : ~ r.SMQ020 \in {1, 2}}) > 0

\* The lines a cell has printed, in order.
PrintsOf(cell) == SelectSeq(printed, LAMBDA e : e[1] = cell)

\* The steps cell 50 and the cells after it have left at most: it falls with
\* every step of the notebook.
LoopBudget == Len(Sizes) * (Reps + 1) + 2
Rank ==
    (55 - pc) * LoopBudget
      + (IF pc # 50 THEN 0
         ELSE IF it.k = 0 THEN LoopBudget - 1
         ELSE (Len(Sizes) - it.k) * (Reps + 1) + (Reps - it.i) + 1)

\* Within cell 50: the pass it.k of the outer loop works on the size Sizes[it.k],
\* it.i intervals of that size are in cis, the earlier sizes are in all_cis and
\* printed, and each interval was computed from a subsample of n rows.
C7_InLoop ==
    (pc = 50 /\ it.k >= 1) =>
       /\ it.k \in DOMAIN Sizes /\ it.i \in 0..Reps
       /\ ns.n = Sizes[it.k]
       /\ Len(ns.all_cis) = it.k - 1
       /\ Len(PrintsOf(50)) = it.k - 1
       /\ Len(ns.cis) = it.i
       /\ ncalls = (it.k - 1) * Reps + it.i
       /\ it.i > 0 => (Size(ns.dz) = ns.n /\ ns.cis[it.i] = ns.ci)

\* After cell 50: one interval per size and repetition was computed, all_cis
\* holds one list of Reps pairs per size, and one mean width per size was
\* printed, in the order of the sizes.
C7_AfterLoop ==
    pc >= 52 =>
       /\ ncalls = Len(Sizes) * Reps
       /\ Len(ns.all_cis) = Len(Sizes)
       /\ \A k \in DOMAIN Sizes :
             /\ Len(ns.all_cis[k]) = Reps
             /\ \A j \in 1..Reps : Len(ns.all_cis[k][j]) = 2
       /\ PrintsOf(50) =
             [k \in DOMAIN Sizes |-> <<50, <<Sizes[k], MeanWidth(ns.all_cis[k])>> >>]

\* Within cell 50 a step can be taken: the loop begins, or ends a size, or draws
\* a subsample, which dx.sample(n) can do when dx has n rows at least.
C7_NotStuck ==
    pc = 50 =>
       \/ it.k = 0
       \/ it.k \in DOMAIN Sizes /\ it.i = Reps
       \/ it.k \in DOMAIN Sizes /\ it.i < Reps /\ ns.n <= Size(ns.dx)

\* C7: the simulation of cell 50 terminates after exactly one interval per size
\* and repetition (4 sizes by Reps repetitions, Reps standing for 500), takes the
\* sizes in the order SizeUnit times 1, 2, 4, 8 (SizeUnit standing for 100),
\* prints one mean width per size and leaves in all_cis four lists of Reps
\* (lower, upper) pairs, the k-th of the k-th size: the cell is never stuck, every
\* step brings its end nearer, and no more intervals are computed than that.
C7_Simulation ==
    /\ [](C7_InLoop /\ C7_AfterLoop /\ ncalls <= Len(Sizes) * Reps /\ Rank >= 0)
    /\ []C7_NotStuck
    /\ [][Rank' < Rank]_vars

\* The simulation has ended, and its intervals are not all alike.
C7_Witness ==
    /\ pc = 52
    /\ ncalls = Len(Sizes) * Reps
    /\ \E k \in DOMAIN Sizes : ns.all_cis[k][1] # ns.all_cis[k][Reps]

\* The width of the interval about the mean of n values of standard deviation s.
WidthFor(s, n) == 2 * ZTimes(FDiv(s, SqrtN(n)))

\* C8 as stated: the mean width printed by cell 50 shortens from each size to the
\* next, and is half as wide when the size is four times as large.
C8_Halves ==
    Done =>
       LET w == [k \in DOMAIN Sizes |-> PrintsOf(50)[k][2][2]]
       IN /\ \A k \in 1..(Len(Sizes) - 1) : w[k + 1] <= w[k]
          /\ \A k \in 1..(Len(Sizes) - 2) : Abs(2 * w[k + 2] - w[k]) <= 16

\* C8, amended: each interval of cell 50 is as wide as 2 z s / sqrt(n), for z =
\* 1.959964 and the standard deviation s of its own subsample of n rows, up to
\* rounding; so for an unchanged s it is half as wide when n is four times as
\* large, while the mean widths printed depend on the subsamples drawn.
C8_WidthOfSample ==
    (pc = 50 /\ it.k >= 1 /\ it.i > 0) =>
       LET s == Std(Values(ns.dz, "BMXBMI"), 1)
       IN /\ Abs((ns.ci[2] - ns.ci[1]) - WidthFor(s, ns.n)) <= 8
          /\ Abs(2 * WidthFor(s, 4 * ns.n) - WidthFor(s, ns.n)) <= 16

\* An interval of the third size has been computed from a subsample whose
\* values differ.
C8_Witness ==
    /\ pc = 50 /\ it.k = 3 /\ it.i > 0
    /\ Std(Values(ns.dz, "BMXBMI"), 1) > Scale
    /\ ns.ci[2] - ns.ci[1] > Scale

\* The mean BMI of the women of the file with a BMI.
MeanFemaleBMI ==
    LET W == {r \in Rows(csv) : r.RIAGENDR = 2 /\ r.BMXBMI # NaN}
    IN SumFn([r \in W |-> r.BMXBMI * csv[r]], W) \div SumFn([r \in W |-> csv[r]], W)

\* C9: the two fractions printed by cell 54 are those of the intervals of the
\* first size, all_cis[0], that lie below and above mn, the mean BMI of all women
\* with a BMI: not of the intervals of the last size, nor of the loop's last ci.
C9_FirstSize ==
    Done =>
       /\ ns.mn = MeanFemaleBMI
       /\ ns.ci = ns.all_cis[1]
       /\ LET first == ns.all_cis[1]
          IN PrintsOf(54) =
                << <<54, <<FracTrue([j \in DOMAIN first |-> first[j][2] < MeanFemaleBMI])>> >>,
                   <<54, <<FracTrue([j \in DOMAIN first |-> first[j][1] > MeanFemaleBMI])>> >> >>

\* Cell 54 has printed, and the intervals of the last size would have given
\* another fraction.
C9_Witness ==
    /\ Done
    /\ PrintsOf(54)[1][2][1] > 0
    /\ LET last == ns.all_cis[Len(Sizes)]
       IN FracTrue([j \in DOMAIN last |-> last[j][2] < ns.mn]) # PrintsOf(54)[1][2][1]

\* C10: no interval is counted both as lying below mn and as lying above it, an
\* interval is counted in one of the two exactly when it does not cover mn; each
\* printed fraction lies between 0 and 1, and their sum is the fraction of the
\* intervals that do not cover mn, at most 1.
C10_Exclusive ==
    /\ pc >= 54 =>
         \A j \in DOMAIN ns.ci :
            LET c == ns.ci[j]
            IN /\ ~ (c[2] < ns.mn /\ c[1] > ns.mn)
               /\ (c[2] < ns.mn \/ c[1] > ns.mn) <=> ~ (c[1] <= ns.mn /\ ns.mn <= c[2])
    /\ Done =>
         LET below == PrintsOf(54)[1][2][1]
             above == PrintsOf(54)[2][2][1]
             miss == FracTrue([j \in DOMAIN ns.ci |-> ~ (ns.ci[j][1] <= ns.mn /\ ns.mn <= ns.ci[j][2])])
         IN /\ below \in 0..Scale /\ above \in 0..Scale
            /\ below + above <= Scale
            /\ miss - 1 <= below + above /\ below + above <= miss

\* Cell 54 has printed, and some intervals of the first size cover mn while
\* others do not.
C10_Witness ==
    /\ Done
    /\ PrintsOf(54)[1][2][1] + PrintsOf(54)[2][2][1] > 0
    /\ PrintsOf(54)[1][2][1] + PrintsOf(54)[2][2][1] < Scale

---------------------------------------------------------------------------
(* The standard error of one proportion, for every count of "Yes" in a     *)
(* group of every size up to MaxN: cell 9 for one group, then the first    *)
(* half of cell 11.                                                        *)

\* A group of n respondents, k of whom answered "Yes" and the others "No".
YesNoGroup(k, n) ==
    [r \in {[SMQ020x |-> a] : a \in {b \in {"Yes", "No"} : IF b = "Yes" THEN k > 0 ELSE k < n}} |->
        IF r.SMQ020x = "Yes" THEN k ELSE n - k]

InitSE ==
    /\ \E n \in 1..MaxN : \E k \in 0..n : csv = YesNoGroup(k, n)
    /\ ns = << >>
    /\ pc = 9
    /\ it = [k |-> 0, i |-> 0]
    /\ out = << >> /\ printed = << >> /\ plots = << >>
    /\ ncalls = 0

\* Cell 9 for the one group: the proportion of "Yes" and the size.
SE_Cell9 ==
    /\ pc = 9
    /\ LET dz == [Proportion |-> MeanIsYes(csv), Total_n |-> GroupSize(csv)]
       IN /\ ns' = Bind("dz", dz, ns)
          /\ out' = Show(9, dz)
    /\ pc' = 11
    /\ UNCHANGED <<csv, it, printed, plots, ncalls>>

\* The first half of cell 11 for the one group: p, n, se_female, print.
SE_Cell11 ==
    /\ pc = 11
    /\ Bound("dz")
    /\ LET p == ns.dz.Proportion
           n == ns.dz.Total_n
           se_female == PropSE(p, n)
       IN /\ ns' = Bind("se_female", se_female, Bind("n", n, Bind("p", p, ns)))
          /\ printed' = Append(printed, <<11, <<se_female>> >>)
    /\ pc' = 13
    /\ UNCHANGED <<csv, it, out, plots, ncalls>>

NextSE == SE_Cell9 \/ SE_Cell11

SpecSE == InitSE /\ [][NextSE]_vars

\* The number of "Yes" of the group.
YesCount == IF [SMQ020x |-> "Yes"] \in DOMAIN csv THEN csv[[SMQ020x |-> "Yes"]] ELSE 0

\* C11: for a fixed n the standard error sqrt(p(1 - p)/n) is the same for p and
\* 1 - p, is 0 at p = 0 and p = 1 and only where p(1 - p)/n is below one unit of
\* the precision, is largest at p = 1/2, and is smaller the farther p is from
\* 1/2 (no larger at this precision, and smaller once the exact root is a unit
\* apart); over counts k(n - k) is largest at k = n/2 and strictly smaller the
\* farther k is from n/2.
C11_LargestAtHalf ==
    pc = 13 =>
       LET n == ns.n
           p == ns.p
           k == YesCount
           far(x) == Abs(2 * x - Scale)
       IN /\ ns.se_female = PropSE(Scale - p, n)
          /\ p \in {0, Scale} => ns.se_female = 0
          /\ ns.se_female = 0 => p * (Scale - p) < n
          /\ ns.se_female <= PropSE(Scale \div 2, n)
          /\ \A q \in 0..Scale :
                far(q) > far(p) =>
                   /\ PropSE(q, n) <= ns.se_female
                   /\ (p * (Scale - p)) \div n >= (PropSE(q, n) + 1) * (PropSE(q, n) + 1)
                         => PropSE(q, n) < ns.se_female
          /\ \A j \in 0..n :
                /\ Abs(2 * j - n) > Abs(2 * k - n) => j * (n - j) < k * (n - k)
                /\ Abs(2 * j - n) > Abs(2 * k - n) =>
                      PropSE((j * Scale) \div n, n) <= ns.se_female
                /\ 4 * j * (n - j) <= n * n

\* The standard error of a group with both answers is computed, and it is
\* smaller than the one at p = 1/2.
C11_Witness ==
    /\ pc = 13
    /\ ns.se_female > 0
    /\ ns.se_female < PropSE(Scale \div 2, ns.n)
    /\ YesCount > 0 /\ 2 * YesCount < ns.n

---------------------------------------------------------------------------
(* The names each cell reads. *)

\* The names a code cell reads that it has not itself assigned before.
ReadsOf(cell) ==
    CASE cell = 1 -> {}
      [] cell = 3 -> {"pd"}
      [] cell = 5 -> {"da", "np"}
      [] cell = 7 -> {"da", "pd"}
      [] cell = 9 -> {"dx", "np"}
      [] cell \in {11, 13, 15} -> {"dz", "np"}
      [] cell \in {18, 19} -> {"sm"}
      [] cell = 22 -> {"np", "se_female", "se_male"}
      [] cell = 24 -> {"dz", "se_diff"}
      [] cell \in {27, 46} -> {"da", "pd", "np", "sns"}
      [] cell \in {30, 32} -> {"da", "np"}
      [] cell \in {34, 37} -> {"np"}
      [] cell = 39 -> {"da", "sm"}
      [] cell = 41 -> {"np", "sem_female", "sem_male"}
      [] cell = 43 -> {"sem_diff"}
      [] cell = 48 -> {"pr"}
      [] cell = 50 -> {"da", "sm", "np"}
      [] cell = 52 -> {"all_cis", "dx", "plt"}
      [] cell = 54 -> {"np", "ci", "mn"}
      [] OTHER -> {}

\* C12: with the code cells run once each in notebook order, every name a cell
\* reads is bound when the cell runs, and to the value its text assumes: cells
\* 11, 13, 15 and 24 find in dz the gender table of cell 9, cell 22 the two
\* standard errors printed by cell 11, cell 24 the scalar se_diff of cell 22,
\* cell 41 the sem_female and sem_male of cell 34, cell 43 the sem_diff of cell
\* 41 computed from them, cell 48 the BMI table of cell 46, cell 52 the female
\* BMI frame dx and the interval lists of cell 50; the later rebindings of
\* se_diff (cell 27) and dz (cell 50) come after their last such reader.
C12_BoundInOrder ==
    /\ ReadsOf(pc) \subseteq DOMAIN ns
    /\ (pc = 50 /\ it.k >= 1) =>
          /\ {"dx", "all_cis", "n", "cis"} \subseteq DOMAIN ns
          /\ it.i > 0 => {"dz", "ci", "i"} \subseteq DOMAIN ns
    /\ pc \in {11, 13, 15, 24} =>
          /\ ns.dz = out[9]
          /\ DOMAIN ns.dz.Proportion = Genders /\ DOMAIN ns.dz.Total_n = Genders
    /\ pc = 22 =>
          PrintsOf(11) = << <<11, <<ns.se_female>> >>, <<11, <<ns.se_male>> >> >>
    /\ pc = 24 => ns.se_diff = out[22]
    /\ pc \in {41, 43} =>
          PrintsOf(34) = << <<34, <<ns.sem_female, ns.sem_male>> >> >>
    /\ pc = 43 => ns.sem_diff = out[41]
    /\ pc = 48 => DOMAIN ns.pr = {"mean", "std", "size", "sem", "mean_diff", "sem_diff",
                                  "lcb_diff", "ucb_diff"}
    /\ pc = 52 =>
          /\ \A r \in Rows(ns.dx) : DOMAIN r = {"RIAGENDRx", "BMXBMI"}
          /\ Len(ns.all_cis) = Len(Sizes)
    /\ pc = 54 => ns.ci = ns.all_cis[1]
    /\ pc >= 30 => DOMAIN ns.se_diff = AgeGroups
    /\ pc >= 52 =>
          /\ \A r \in Rows(ns.dz) : DOMAIN r = {"RIAGENDRx", "BMXBMI"}
          /\ Size(ns.dz) = Sizes[Len(Sizes)]

\* Every cell has run: cell 24 has printed its interval, and since then
\* se_diff and dz have been rebound.
C12_Witness ==
    /\ Done
    /\ Len(PrintsOf(24)) = 1 /\ 43 \in DOMAIN out
    /\ DOMAIN ns.se_diff = AgeGroups
    /\ Size(ns.dz) = Sizes[Len(Sizes)]

====
